---- MODULE Spec2Model ----
(***************************************************************************)
(* The bulk JSON import engine of the project tracker: parseJsonImport     *)
(* (utils/parser.ts).  One call deserializes the text, regenerates every   *)
(* id, and re-links ticket -> board, ticket -> sprint and ticket -> parent *)
(* references through three token maps.                                    *)
(*                                                                         *)
(* The call is modelled stage by stage (deserialize, board stage, ticket   *)
(* pass 1, ticket pass 2, stats); each stage is the whole loop of the      *)
(* source, folded over the document by a recursive operator.               *)
(***************************************************************************)
EXTENDS Integers, Sequences, FiniteSets, TLC

(***************************************************************************)
(* JavaScript values.  A field that is missing reads as undefined; every   *)
(* falsy value (undefined, null, "", 0, false) takes the same branch of    *)
(* the source's tests, so a missing field stands for all of them except    *)
(* where "" is listed explicitly.                                          *)
(***************************************************************************)
Undefined == "undefined"
Null == "null"

Truthy(v) == v \notin {Undefined, Null, ""}

(***************************************************************************)
(* The values of the fields the call copies, defaults or coerces.  A value *)
(* has a type (as typeof and Array.isArray tell them apart); str is the    *)
(* text of a string, num the value of a number (a "fraction" lies between  *)
(* num and num + 1), list the elements of an array or, for a string the    *)
(* call parses, its characters.                                            *)
(***************************************************************************)
JsVal(type, str, num, list) == [type |-> type, str |-> str, num |-> num, list |-> list]
Undef == JsVal("undefined", "", 0, <<>>)
NullV == JsVal("null", "", 0, <<>>)
Str(s) == JsVal("string", s, 0, <<>>)
Num(n) == JsVal("number", "", n, <<>>)
Frac(n) == JsVal("number", "fraction", n, <<>>)
NaN == JsVal("number", "NaN", 0, <<>>)
Bool(b) == JsVal("boolean", "", IF b THEN 1 ELSE 0, <<>>)
List(l) == JsVal("array", "", 0, l)

RECURSIVE Join(_)
Join(chars) == IF chars = <<>> THEN "" ELSE Head(chars) \o Join(Tail(chars))
Text(chars) == JsVal("string", Join(chars), 0, chars)

IsTruthy(v) ==
    CASE v.type \in {"undefined", "null"} -> FALSE
      [] v.type = "string" -> v.str # ""
      [] v.type = "number" -> v.str # "NaN" /\ (v.num # 0 \/ v.str = "fraction")
      [] v.type = "boolean" -> v.num = 1
      [] OTHER -> TRUE

\* a || b
OrElse(v, default) == IF IsTruthy(v) THEN v ELSE default

(***************************************************************************)
(* parseInt(text, 10): leading white space is skipped, a sign is read,     *)
(* then decimal digits up to the first other character; NaN when there is  *)
(* no digit to read.                                                       *)
(***************************************************************************)
Digits == <<"0", "1", "2", "3", "4", "5", "6", "7", "8", "9">>
IsDigit(c) == \E d \in 1..Len(Digits) : Digits[d] = c
DigitValue(c) == (CHOOSE d \in 1..Len(Digits) : Digits[d] = c) - 1

RECURSIVE SkipSpace(_)
SkipSpace(cs) == IF cs # <<>> /\ Head(cs) = " " THEN SkipSpace(Tail(cs)) ELSE cs

RECURSIVE ReadDigits(_, _)
ReadDigits(cs, acc) ==
    IF cs # <<>> /\ IsDigit(Head(cs))
    THEN ReadDigits(Tail(cs), acc * Len(Digits) + DigitValue(Head(cs)))
    ELSE acc

ParseInt(cs) ==
    LET s1 == SkipSpace(cs)
        signed == s1 # <<>> /\ Head(s1) \in {"+", "-"}
        s2 == IF signed THEN Tail(s1) ELSE s1
    IN  IF s2 = <<>> \/ ~IsDigit(Head(s2)) THEN NaN
        ELSE IF signed /\ Head(s1) = "-" THEN Num(0 - ReadDigits(s2, 0))
        ELSE Num(ReadDigits(s2, 0))

(***************************************************************************)
(* Bounds of the documents explored.                                       *)
(***************************************************************************)
MaxLinkTickets == 3
MaxBoards == 2

BoardTokens == {"b1", "b2"}
SprintTokens == {"s1"}
TicketTokens == {"t1", "t2"}

SeqsUpTo(S, n) == UNION {[1..k -> S] : k \in 0..n}
AtMostOne(S) == {<<>>} \cup {<<e>> : e \in S}

(***************************************************************************)
(* The deserialized document.  A property that should hold an array is     *)
(* "absent" (missing or falsy), "other" (a truthy value that is not an     *)
(* array) or an "array" of entries; an entry is null, an "object", or an   *)
(* "other" value (a primitive, whose properties all read as undefined).    *)
(***************************************************************************)
Absent == [kind |-> "absent", items |-> <<>>]
Other == [kind |-> "other", items |-> <<>>]
Arr(s) == [kind |-> "array", items |-> s]

TicketEntry(k, id, parent, sprint, board) ==
    [kind |-> k, id |-> id, parent_id |-> parent, sprint_id |-> sprint,
     board_id |-> board, _temp_board_id |-> Undefined,
     title |-> Undef, description |-> Undef, status |-> Undef, type |-> Undef,
     priority |-> Undef, story_points |-> Undef, labels |-> Undef,
     is_flagged |-> Undef, assignee_id |-> Undef]
TicketObj(id, parent, sprint, board) == TicketEntry("object", id, parent, sprint, board)
NullTicket == TicketEntry("null", Undefined, Undefined, Undefined, Undefined)
PrimTicket == TicketEntry("other", Undefined, Undefined, Undefined, Undefined)

SprintEntry(k, id) ==
    [kind |-> k, id |-> id, name |-> Undef, status |-> Undef, goal |-> Undef,
     start_date |-> Undef, end_date |-> Undef]
SprintObj(id) == SprintEntry("object", id)
NullSprint == SprintEntry("null", Undefined)
PrimSprint == SprintEntry("other", Undefined)

BoardEntry(k, id, sprints, tickets) ==
    [kind |-> k, id |-> id, sprints |-> sprints, tickets |-> tickets,
     name |-> Undef, key |-> Undef, type |-> Undef, columns |-> Undef]
BoardObj(id, sprints, tickets) == BoardEntry("object", id, sprints, tickets)
NullBoard == BoardEntry("null", Undefined, Absent, Absent)
PrimBoard == BoardEntry("other", Undefined, Absent, Absent)

DataObj(boards, tickets) == [kind |-> "object", boards |-> boards, tickets |-> tickets]
NullData == [kind |-> "null", boards |-> Absent, tickets |-> Absent]
PrimData == [kind |-> "other", boards |-> Absent, tickets |-> Absent]

ArrOrAbsent(s) == IF s = <<>> THEN Absent ELSE Arr(s)

(***************************************************************************)
(* Documents about parent links: up to MaxLinkTickets tickets carrying an  *)
(* id token and a parent token, all at top level except at most one, which *)
(* is nested under a board entry (and so joins the working list last).     *)
(***************************************************************************)
LinkTickets ==
    {TicketObj(id, p, Undefined, Undefined) :
        id \in TicketTokens \cup {Undefined}, p \in TicketTokens \cup {Undefined}}

LinkDoc(top, nested) ==
    DataObj(IF nested = <<>> THEN Absent
                             ELSE Arr(<<BoardObj(Undefined, Absent, Arr(nested))>>),
            ArrOrAbsent(top))

LinkDocs ==
    {LinkDoc(top, <<>>) : top \in SeqsUpTo(LinkTickets, MaxLinkTickets)} \cup
    {LinkDoc(top, <<t>>) : top \in SeqsUpTo(LinkTickets, MaxLinkTickets - 1),
                           t \in LinkTickets}

(***************************************************************************)
(* Documents about board and sprint references: up to MaxBoards board      *)
(* entries, at most one sprint, nested under some board entry, and at most *)
(* one ticket, nested under some board entry or at top level (at = 0).     *)
(***************************************************************************)
RefTickets ==
    {TicketObj(Undefined, Undefined, s, b) :
        s \in SprintTokens \cup {Undefined}, b \in BoardTokens \cup {Undefined}}

Under(placed, i) ==
    LET At(e) == e.at = i
        sel == SelectSeq(placed, At)
    IN  [j \in 1..Len(sel) |-> sel[j].e]

RefDoc(ids, sprints, tickets) ==
    DataObj(Arr([i \in 1..Len(ids) |->
                    BoardObj(ids[i], ArrOrAbsent(Under(sprints, i)),
                             ArrOrAbsent(Under(tickets, i)))]),
            ArrOrAbsent(Under(tickets, 0)))

RefDocs ==
    UNION {
      {RefDoc(ids, sp, tk) :
          sp \in AtMostOne([at : 1..Len(ids),
                            e : {SprintObj(s) : s \in SprintTokens \cup {Undefined}}]),
          tk \in AtMostOne([at : 0..Len(ids), e : RefTickets])} :
      ids \in SeqsUpTo(BoardTokens \cup {Undefined}, MaxBoards)}

(***************************************************************************)
(* Documents about shapes: every property that should be an array is       *)
(* absent, a non-array, or an array of at most one entry, and every entry  *)
(* is null, a primitive or an object.                                      *)
(***************************************************************************)
ShapeField(S) == {Absent, Other} \cup {Arr(s) : s \in AtMostOne(S)}

ShapeTickets == {NullTicket, PrimTicket, TicketObj(Undefined, "t1", Undefined, Undefined)}
ShapeSprints == {NullSprint, PrimSprint, SprintObj("s1")}
ShapeBoards ==
    {NullBoard, PrimBoard} \cup
    {BoardObj("b1", s, t) : s \in ShapeField(ShapeSprints), t \in ShapeField(ShapeTickets)}

ShapeDocs ==
    {NullData, PrimData} \cup
    {DataObj(b, t) : b \in ShapeField(ShapeBoards), t \in ShapeField(ShapeTickets)}

(***************************************************************************)
(* The text handed to the call: either text JSON.parse rejects, or text    *)
(* that denotes a document.                                                *)
(***************************************************************************)
(***************************************************************************)
(* Documents about the copied fields: one top-level ticket with at most    *)
(* two of its fields given, or one board with at most one field given and  *)
(* at most one nested sprint with at most one field given.  The values     *)
(* are of the declared type and legal, of the declared type and not legal, *)
(* or of another type (JSON does not enforce the declarations).            *)
(***************************************************************************)
PointValues ==
    {Text(<<"5">>), Text(<<"1", "2">>), Text(<<"a", "b", "c">>), Text(<<>>),
     Text(<<"5", "a">>), Text(<<"2", ".", "5">>), Text(<<"-", "3">>),
     Text(<<" ", "7">>), Text(<<"+", "4">>),
     Num(5), Num(0), Num(0 - 3), Frac(2), Bool(TRUE), NullV, List(<<>>)}

TicketFieldValues ==
    [title |-> {Str("Fix login"), Str(""), NullV},
     description |-> {Str("Steps")},
     status |-> {Str("Done")},
     type |-> {Str("Epic"), Str("Bug"), Str("Feature")},
     priority |-> {Str("High"), Str("Urgent")},
     story_points |-> PointValues,
     labels |-> {List(<<"ui">>), Str("ui")},
     is_flagged |-> {Bool(TRUE), Bool(FALSE), Str("yes")},
     assignee_id |-> {Str("u1")}]

SprintFieldValues ==
    [name |-> {Str("Sprint 1")},
     status |-> {Str("active"), Str("closed"), Str("paused")},
     goal |-> {Str("Ship")},
     start_date |-> {Str("2024-01-01")},
     end_date |-> {NullV}]

BoardFieldValues ==
    [name |-> {Str("Alpha")},
     key |-> {Str("ALP")},
     type |-> {Str("scrum"), Str("gantt"), Num(1)},
     columns |-> {List(<<"Todo", "Done">>)}]

\* every way to give the fields named in fields a value of theirs
Given(entry, values, fields) ==
    UNION {{[entry EXCEPT ![f] = v, ![g] = w] : v \in values[f], w \in values[g]} :
             <<f, g>> \in fields \X fields}

BareTicket == TicketObj(Undefined, Undefined, Undefined, Undefined)

FieldTickets ==
    {BareTicket} \cup Given(BareTicket, TicketFieldValues, DOMAIN TicketFieldValues)

FieldSprints ==
    {SprintObj(Undefined)} \cup
    UNION {Given(SprintObj(Undefined), SprintFieldValues, {f}) : f \in DOMAIN SprintFieldValues}

FieldBoards ==
    UNION {{BoardObj(Undefined, sprints, Absent)} \cup
           UNION {Given(BoardObj(Undefined, sprints, Absent), BoardFieldValues, {f}) :
                    f \in DOMAIN BoardFieldValues} :
             sprints \in {Absent} \cup {Arr(<<s>>) : s \in FieldSprints}}

FieldDocs ==
    {DataObj(Absent, Arr(<<t>>)) : t \in FieldTickets} \cup
    {DataObj(Arr(<<b>>), Absent) : b \in FieldBoards}

(***************************************************************************)
(* Documents about the order of the tickets: two boards, the second        *)
(* without an id, with up to two nested tickets each, and up to two        *)
(* top-level tickets; the title of a ticket tells where it was written.    *)
(***************************************************************************)
Titled(name) == [BareTicket EXCEPT !.title = Str(name)]
Prefixes(seq) == {SubSeq(seq, 1, k) : k \in 0..Len(seq)}

OrderDocs ==
    {DataObj(Arr(<<BoardObj("b1", Absent, ArrOrAbsent(n1)),
                   BoardObj(Undefined, Absent, ArrOrAbsent(n2))>>),
             ArrOrAbsent(top)) :
       n1 \in Prefixes(<<Titled("nested 1.1"), Titled("nested 1.2")>>),
       n2 \in Prefixes(<<Titled("nested 2.1"), Titled("nested 2.2")>>),
       top \in Prefixes(<<Titled("top 1"), Titled("top 2")>>)}

(***************************************************************************)
(* The texts.  JSON.parse accepts a text or throws; the text of a document *)
(* is not blank, and neither the empty text nor a text that fails to       *)
(* deserialize for another reason has a value.                             *)
(***************************************************************************)
Malformed == [wellFormed |-> FALSE, blank |-> FALSE, value |-> NullData]
Blank == [wellFormed |-> FALSE, blank |-> TRUE, value |-> NullData]
TextOf(d) == [wellFormed |-> TRUE, blank |-> FALSE, value |-> d]

RawTexts ==
    {Malformed, Blank} \cup
    {TextOf(d) : d \in LinkDocs \cup RefDocs \cup ShapeDocs \cup FieldDocs \cup OrderDocs}

(***************************************************************************)
(* Identifiers.  crypto.randomUUID() is modelled as a generator of fresh   *)
(* ids: the k-th id ever issued is Uuid(k).  The ids of the entities that  *)
(* are already in the store were issued by the same generator.             *)
(***************************************************************************)
UuidRepeating(k) == "uuid-" \o ToString(k % 4)
Uuid(k) == "uuid-" \o ToString(k)

RandomUUIDStale(issued) == Uuid(issued)
RandomUUID(issued) == Uuid(issued + 1)

StoreBoardId == Uuid(1)
InitialStore ==
    [boards |-> <<[id |-> Uuid(1)]>>,
     sprints |-> <<[id |-> Uuid(2), board_id |-> Uuid(1)]>>,
     tickets |-> <<[id |-> Uuid(3), board_id |-> Uuid(1), sprint_id |-> Null,
                    parent_id |-> Null]>>]
InitialIssued ==
    Len(InitialStore.boards) + Len(InitialStore.sprints) + Len(InitialStore.tickets)

(***************************************************************************)
(* Map<string, string>                                                     *)
(***************************************************************************)
EmptyMap == <<>>
MapHas(m, k) == k \in DOMAIN m
MapGet(m, k) == m[k]
MapSet(m, k, v) == [x \in DOMAIN m \cup {k} |-> IF x = k THEN v ELSE m[x]]

EmptyResult ==
    [boards |-> <<>>, sprints |-> <<>>, tickets |-> <<>>,
     stats |-> [boards |-> 0, sprints |-> 0, tickets |-> 0]]

VARIABLE rawText          \* jsonString
VARIABLE currentBoardId   \* the optional second parameter
VARIABLE store            \* the boards, sprints and tickets already in the app
VARIABLE issued           \* how many ids crypto.randomUUID() has issued so far
VARIABLE pc               \* the stage the call is at
VARIABLE data             \* the deserialized document (data.tickets grows in stage 1)
VARIABLE result           \* the ParsedResult under construction
VARIABLE boardMap         \* old board token -> new board id
VARIABLE sprintMap        \* old sprint token -> new sprint id
VARIABLE ticketMap        \* old ticket token -> new ticket id
VARIABLE error            \* the message of the error thrown, if any
VARIABLE isImportModalOpen \* App: whether the import dialog is shown
VARIABLE activeBoardId    \* App: the board the user works on
VARIABLE modal            \* ImportModal: activeTab, jsonInput, error, stats
VARIABLE onImportCalls    \* how many times the dialog has invoked onImport
VARIABLE calls            \* the locals of each of two invocations in progress at once

appVars == <<isImportModalOpen, activeBoardId, modal, onImportCalls, calls>>
callVars == <<rawText, currentBoardId, pc, data, result,
              boardMap, sprintMap, ticketMap, error, calls>>

vars == <<rawText, currentBoardId, store, issued, pc, data, result,
          boardMap, sprintMap, ticketMap, error,
          isImportModalOpen, activeBoardId, modal, onImportCalls, calls>>

\* no second pair of invocations is in progress
NoCalls == <<>>

\* useState('import'), useState(''), useState(null), useState(null)
InitialModal == [activeTab |-> "import", jsonInput |-> Blank, error |-> Null, stats |-> {}]

Init ==
    /\ rawText \in RawTexts
    /\ currentBoardId \in {Undefined, "", StoreBoardId}
    /\ store = InitialStore
    /\ issued = InitialIssued
    /\ pc = "parse"
    /\ data = NullData
    /\ result = EmptyResult
    /\ boardMap = EmptyMap
    /\ sprintMap = EmptyMap
    /\ ticketMap = EmptyMap
    /\ error = Null
    /\ isImportModalOpen = FALSE
    /\ activeBoardId = ""
    /\ modal = InitialModal
    /\ onImportCalls = 0
    /\ calls = NoCalls

(***************************************************************************)
(* An error leaves the call: its locals are gone and nothing is returned.  *)
(***************************************************************************)
Throw(msg, n) ==
    /\ pc' = "thrown"
    /\ error' = msg
    /\ issued' = n
    /\ data' = NullData
    /\ result' = EmptyResult
    /\ boardMap' = EmptyMap
    /\ sprintMap' = EmptyMap
    /\ ticketMap' = EmptyMap
    /\ UNCHANGED <<appVars, rawText, currentBoardId, store>>

(***************************************************************************)
(* try { data = JSON.parse(jsonString) } catch { throw ... }               *)
(***************************************************************************)
JsonParseLenient ==
    /\ pc = "parse"
    /\ data' = IF rawText.wellFormed THEN rawText.value ELSE DataObj(Absent, Absent)
    /\ result' = EmptyResult
    /\ boardMap' = EmptyMap
    /\ sprintMap' = EmptyMap
    /\ ticketMap' = EmptyMap
    /\ pc' = "boards"
    /\ UNCHANGED <<appVars, rawText, currentBoardId, store, issued, error>>

JsonParse ==
    /\ pc = "parse"
    /\ IF rawText.wellFormed
       THEN /\ data' = rawText.value
            /\ result' = EmptyResult
            /\ boardMap' = EmptyMap
            /\ sprintMap' = EmptyMap
            /\ ticketMap' = EmptyMap
            /\ pc' = "boards"
            /\ UNCHANGED <<appVars, rawText, currentBoardId, store, issued, error>>
       ELSE Throw("Invalid JSON format", issued)

(***************************************************************************)
(* const newBoard: Board = {...} and result.sprints.push({...})            *)
(***************************************************************************)
NewBoard(b, newId) ==
    [id |-> newId,
     name |-> OrElse(b.name, Str("Imported Project")),
     key |-> OrElse(b.key, Str("IMP")),
     type |-> OrElse(b.type, Str("kanban")),
     columns |-> OrElse(b.columns, List(<<>>))]

NewSprint(s, newSprintId, boardId) ==
    [id |-> newSprintId,
     board_id |-> boardId,
     name |-> OrElse(s.name, Str("Imported Sprint")),
     status |-> OrElse(s.status, Str("future")),
     goal |-> s.goal,
     start_date |-> s.start_date,
     end_date |-> s.end_date]

(***************************************************************************)
(* 1a. the sprints nested in board entry b, whose new id is newId          *)
(***************************************************************************)
RECURSIVE SprintLoopFirstBoard(_, _, _, _)
SprintLoopFirstBoard(st, newId, items, i) ==
    IF i > Len(items) \/ st.thrown THEN st
    ELSE LET s == items[i]
             newSprintId == RandomUUID(st.issued)
         IN  IF s.kind = "null"
             THEN [st EXCEPT !.issued = @ + 1, !.thrown = TRUE]
             ELSE SprintLoopFirstBoard(
                    [st EXCEPT
                       !.issued = @ + 1,
                       !.sprintMap = IF Truthy(s.id) THEN MapSet(@, s.id, newSprintId) ELSE @,
                       !.sprints = Append(@, NewSprint(s, newSprintId, st.boards[1].id))],
                    newId, items, i + 1)

RECURSIVE SprintLoop(_, _, _, _)
SprintLoop(st, newId, items, i) ==
    IF i > Len(items) \/ st.thrown THEN st
    ELSE LET s == items[i]
             newSprintId == RandomUUID(st.issued)
         IN  IF s.kind = "null"
             THEN [st EXCEPT !.issued = @ + 1, !.thrown = TRUE]   \* s.id of null
             ELSE SprintLoop(
                    [st EXCEPT
                       !.issued = @ + 1,
                       !.sprintMap = IF Truthy(s.id) THEN MapSet(@, s.id, newSprintId) ELSE @,
                       !.sprints = Append(@, NewSprint(s, newSprintId, newId))],
                    newId, items, i + 1)

(***************************************************************************)
(* 1b. the tickets nested in board entry b: tag each with b.id and push it *)
(* onto data.tickets.  The module is strict code, so setting a property on *)
(* null or on a primitive throws; so does push on a non-array.             *)
(***************************************************************************)
RECURSIVE NestedTicketLoopUnshift(_, _, _, _)
NestedTicketLoopUnshift(st, b, items, i) ==
    IF i > Len(items) \/ st.thrown THEN st
    ELSE LET t == items[i]
             list == IF st.tickets.kind = "absent" THEN Arr(<<>>) ELSE st.tickets
         IN  IF t.kind # "object"
             THEN [st EXCEPT !.thrown = TRUE]
             ELSE IF list.kind # "array"
             THEN [st EXCEPT !.thrown = TRUE]
             ELSE NestedTicketLoopUnshift(
                    [st EXCEPT !.tickets =
                        Arr(<<[t EXCEPT !._temp_board_id = b.id]>> \o list.items)],
                    b, items, i + 1)

RECURSIVE NestedTicketLoop(_, _, _, _)
NestedTicketLoop(st, b, items, i) ==
    IF i > Len(items) \/ st.thrown THEN st
    ELSE LET t == items[i]
             list == IF st.tickets.kind = "absent" THEN Arr(<<>>) ELSE st.tickets
         IN  IF t.kind # "object"
             THEN [st EXCEPT !.thrown = TRUE]
             ELSE IF list.kind # "array"
             THEN [st EXCEPT !.thrown = TRUE]
             ELSE NestedTicketLoop(
                    [st EXCEPT !.tickets =
                        Arr(Append(list.items, [t EXCEPT !._temp_board_id = b.id]))],
                    b, items, i + 1)

(***************************************************************************)
(* 1. data.boards.forEach                                                  *)
(***************************************************************************)
RECURSIVE BoardLoopMerging(_, _, _)
BoardLoopMerging(st, items, i) ==
    IF i > Len(items) \/ st.thrown THEN st
    ELSE LET b == items[i]
             newId == RandomUUID(st.issued)
             st1 == [st EXCEPT
                       !.issued = @ + 1,
                       !.boardMap = IF Truthy(b.id) THEN MapSet(@, b.id, newId) ELSE @,
                       !.boards = Append(@, NewBoard(b, newId))]
             st2 == IF b.sprints.kind = "array"
                    THEN SprintLoop(st1, newId, b.sprints.items, 1)
                    ELSE st1
             st3 == IF ~st2.thrown /\ b.tickets.kind = "array"
                    THEN NestedTicketLoop(st2, b, b.tickets.items, 1)
                    ELSE st2
         IN  IF b.kind = "null"
             THEN [st EXCEPT !.issued = @ + 1, !.thrown = TRUE]
             ELSE IF Truthy(b.id) /\ MapHas(st.boardMap, b.id)
             THEN BoardLoopMerging(st, items, i + 1)
             ELSE BoardLoopMerging(st3, items, i + 1)

RECURSIVE BoardLoopFirstTokenOnly(_, _, _)
BoardLoopFirstTokenOnly(st, items, i) ==
    IF i > Len(items) \/ st.thrown THEN st
    ELSE LET b == items[i]
             newId == RandomUUID(st.issued)
             st1 == [st EXCEPT
                       !.issued = @ + 1,
                       !.boardMap = IF Truthy(b.id) /\ i = 1 THEN MapSet(@, b.id, newId) ELSE @,
                       !.boards = Append(@, NewBoard(b, newId))]
             st2 == IF b.sprints.kind = "array"
                    THEN SprintLoop(st1, newId, b.sprints.items, 1)
                    ELSE st1
             st3 == IF ~st2.thrown /\ b.tickets.kind = "array"
                    THEN NestedTicketLoop(st2, b, b.tickets.items, 1)
                    ELSE st2
         IN  IF b.kind = "null"
             THEN [st EXCEPT !.issued = @ + 1, !.thrown = TRUE]   \* b.id of null
             ELSE BoardLoopFirstTokenOnly(st3, items, i + 1)

RECURSIVE BoardLoop(_, _, _)
BoardLoop(st, items, i) ==
    IF i > Len(items) \/ st.thrown THEN st
    ELSE LET b == items[i]
             newId == RandomUUID(st.issued)
             st1 == [st EXCEPT
                       !.issued = @ + 1,
                       !.boardMap = IF Truthy(b.id) THEN MapSet(@, b.id, newId) ELSE @,
                       !.boards = Append(@, NewBoard(b, newId))]
             st2 == IF b.sprints.kind = "array"
                    THEN SprintLoop(st1, newId, b.sprints.items, 1)
                    ELSE st1
             st3 == IF ~st2.thrown /\ b.tickets.kind = "array"
                    THEN NestedTicketLoop(st2, b, b.tickets.items, 1)
                    ELSE st2
         IN  IF b.kind = "null"
             THEN [st EXCEPT !.issued = @ + 1, !.thrown = TRUE]   \* b.id of null
             ELSE BoardLoop(st3, items, i + 1)

BoardStage(d, n) ==
    LET st0 == [boards |-> <<>>, sprints |-> <<>>, boardMap |-> EmptyMap,
                sprintMap |-> EmptyMap, tickets |-> d.tickets, issued |-> n,
                thrown |-> FALSE]
    IN  IF d.kind = "null" THEN [st0 EXCEPT !.thrown = TRUE]      \* data.boards of null
        ELSE IF d.boards.kind = "array" THEN BoardLoop(st0, d.boards.items, 1)
        ELSE st0

ProcessBoards ==
    /\ pc = "boards"
    /\ LET st == BoardStage(data, issued)
       IN  IF st.thrown
           THEN Throw("TypeError", st.issued)
           ELSE /\ result' = [result EXCEPT !.boards = st.boards, !.sprints = st.sprints]
                /\ boardMap' = st.boardMap
                /\ sprintMap' = st.sprintMap
                /\ data' = [data EXCEPT !.tickets = st.tickets]
                /\ issued' = st.issued
                /\ pc' = "tickets"
                /\ UNCHANGED <<appVars, rawText, currentBoardId, store, ticketMap, error>>

(***************************************************************************)
(* Resolve Board ID.  Priority: the tag mapped through boardMap, the       *)
(* ticket's own board_id mapped through boardMap, the current active       *)
(* board, the first imported board, else whatever currentBoardId was.      *)
(***************************************************************************)
ResolveBoardNoFirst(t, fallback, bmap, boards) ==
    IF Truthy(t._temp_board_id) /\ MapHas(bmap, t._temp_board_id)
    THEN MapGet(bmap, t._temp_board_id)
    ELSE IF Truthy(t.board_id) /\ MapHas(bmap, t.board_id)
    THEN MapGet(bmap, t.board_id)
    ELSE fallback

ResolveBoardOwnFirst(t, fallback, bmap, boards) ==
    IF Truthy(t.board_id) /\ MapHas(bmap, t.board_id)
    THEN MapGet(bmap, t.board_id)
    ELSE IF Truthy(t._temp_board_id) /\ MapHas(bmap, t._temp_board_id)
    THEN MapGet(bmap, t._temp_board_id)
    ELSE IF ~Truthy(fallback) /\ Len(boards) > 0
    THEN boards[1].id
    ELSE fallback

ResolveBoard(t, fallback, bmap, boards) ==
    IF Truthy(t._temp_board_id) /\ MapHas(bmap, t._temp_board_id)
    THEN MapGet(bmap, t._temp_board_id)
    ELSE IF Truthy(t.board_id) /\ MapHas(bmap, t.board_id)
    THEN MapGet(bmap, t.board_id)
    ELSE IF ~Truthy(fallback) /\ Len(boards) > 0
    THEN boards[1].id
    ELSE fallback

(***************************************************************************)
(* Resolve Sprint ID                                                       *)
(***************************************************************************)
ResolveSprintRaw(t, smap) ==
    IF Truthy(t.sprint_id) /\ MapHas(smap, t.sprint_id)
    THEN MapGet(smap, t.sprint_id)
    ELSE IF Truthy(t.sprint_id) THEN t.sprint_id ELSE Null

ResolveSprint(t, smap) ==
    IF Truthy(t.sprint_id) /\ MapHas(smap, t.sprint_id)
    THEN MapGet(smap, t.sprint_id)
    ELSE Null

(***************************************************************************)
(* The materialized ticket; parent_id holds the raw token until pass 2.    *)
(***************************************************************************)
RawParent(t) == IF Truthy(t.parent_id) THEN t.parent_id ELSE Null

(***************************************************************************)
(* Safe parsing for story points: a string goes through parseInt and is    *)
(* dropped when the result is NaN; any other value is kept as it is.       *)
(***************************************************************************)
ParsedPoints(t) ==
    IF t.story_points.type = "string"
    THEN LET parsed == ParseInt(t.story_points.list)
         IN  IF parsed = NaN THEN Undef ELSE parsed
    ELSE t.story_points

TicketDefaultsTask ==
    [title |-> Str("Untitled Ticket"), description |-> Str(""), status |-> Str("Todo"),
     type |-> Str("Task"), priority |-> Str("Medium"), labels |-> List(<<>>)]

TicketDefaults ==
    [title |-> Str("Untitled Ticket"), description |-> Str(""), status |-> Str("Todo"),
     type |-> Str("Story"), priority |-> Str("Medium"), labels |-> List(<<>>)]

\* assignee_id: null
AssigneeFromInput(t) == t.assignee_id
AssigneeOf(t) == NullV

\* created_at, the wall-clock time of the call, is not modelled
Materialize(t, newId, fallback, bmap, smap, boards) ==
    [id |-> newId,
     board_id |-> ResolveBoard(t, fallback, bmap, boards),
     sprint_id |-> ResolveSprint(t, smap),
     title |-> OrElse(t.title, TicketDefaults.title),
     description |-> OrElse(t.description, TicketDefaults.description),
     status |-> OrElse(t.status, TicketDefaults.status),
     type |-> OrElse(t.type, TicketDefaults.type),
     priority |-> OrElse(t.priority, TicketDefaults.priority),
     story_points |-> ParsedPoints(t),
     labels |-> OrElse(t.labels, TicketDefaults.labels),
     is_flagged |-> Bool(IsTruthy(t.is_flagged)),
     parent_id |-> RawParent(t),
     assignee_id |-> AssigneeOf(t)]

(***************************************************************************)
(* 2. First Pass: data.tickets.forEach                                     *)
(***************************************************************************)
RECURSIVE TicketLoopEager(_, _, _, _, _, _, _)
TicketLoopEager(st, items, i, fallback, bmap, smap, boards) ==
    IF i > Len(items) \/ st.thrown THEN st
    ELSE LET t == items[i]
             newId == RandomUUID(st.issued)
             seen == IF Truthy(t.id) THEN MapSet(st.ticketMap, t.id, newId) ELSE st.ticketMap
         IN  IF t.kind = "null"
             THEN [st EXCEPT !.issued = @ + 1, !.thrown = TRUE]
             ELSE TicketLoopEager(
                    [st EXCEPT
                       !.issued = @ + 1,
                       !.ticketMap = seen,
                       !.tickets = Append(@,
                          [Materialize(t, newId, fallback, bmap, smap, boards)
                              EXCEPT !.parent_id = IF MapHas(seen, @) THEN @ ELSE Null])],
                    items, i + 1, fallback, bmap, smap, boards)

RECURSIVE TicketLoop(_, _, _, _, _, _, _)
TicketLoop(st, items, i, fallback, bmap, smap, boards) ==
    IF i > Len(items) \/ st.thrown THEN st
    ELSE LET t == items[i]
             newId == RandomUUID(st.issued)
         IN  IF t.kind = "null"
             THEN [st EXCEPT !.issued = @ + 1, !.thrown = TRUE]   \* t.id of null
             ELSE TicketLoop(
                    [st EXCEPT
                       !.issued = @ + 1,
                       !.ticketMap = IF Truthy(t.id) THEN MapSet(@, t.id, newId) ELSE @,
                       !.tickets = Append(@, Materialize(t, newId, fallback, bmap, smap, boards))],
                    items, i + 1, fallback, bmap, smap, boards)

FirstPass ==
    /\ pc = "tickets"
    /\ IF data.tickets.kind # "array"
       THEN /\ pc' = "stats"
            /\ UNCHANGED <<appVars, rawText, currentBoardId, store, issued, data, result,
                           boardMap, sprintMap, ticketMap, error>>
       ELSE LET st == TicketLoop([tickets |-> <<>>, ticketMap |-> EmptyMap,
                                  issued |-> issued, thrown |-> FALSE],
                                 data.tickets.items, 1, currentBoardId,
                                 boardMap, sprintMap, result.boards)
            IN  IF st.thrown
                THEN Throw("TypeError", st.issued)
                ELSE /\ result' = [result EXCEPT !.tickets = st.tickets]
                     /\ ticketMap' = st.ticketMap
                     /\ issued' = st.issued
                     /\ pc' = "link"
                     /\ UNCHANGED <<appVars, rawText, currentBoardId, store, data,
                                    boardMap, sprintMap, error>>

(***************************************************************************)
(* Second Pass: Link Parents                                               *)
(***************************************************************************)
LinkParentKeepRaw(ticket, tmap) ==
    [ticket EXCEPT !.parent_id =
        IF Truthy(ticket.parent_id) /\ MapHas(tmap, ticket.parent_id)
        THEN MapGet(tmap, ticket.parent_id)
        ELSE @]

LinkParent(ticket, tmap) ==
    [ticket EXCEPT !.parent_id =
        IF Truthy(ticket.parent_id) /\ MapHas(tmap, ticket.parent_id)
        THEN MapGet(tmap, ticket.parent_id)
        ELSE Null]

SecondPass ==
    /\ pc = "link"
    /\ result' = [result EXCEPT !.tickets =
                     [i \in 1..Len(result.tickets) |-> LinkParent(result.tickets[i], ticketMap)]]
    /\ pc' = "stats"
    /\ UNCHANGED <<appVars, rawText, currentBoardId, store, issued, data,
                   boardMap, sprintMap, ticketMap, error>>

(***************************************************************************)
(* Update stats: result.stats = {...}; return result                       *)
(***************************************************************************)
StatsOfStale(res) == res.stats

StatsOf(res) ==
    [boards |-> Len(res.boards),
     sprints |-> Len(res.sprints),
     tickets |-> Len(res.tickets)]

Return ==
    /\ pc = "stats"
    /\ result' = [result EXCEPT !.stats = StatsOf(result)]
    /\ pc' = "returned"
    /\ UNCHANGED <<appVars, rawText, currentBoardId, store, issued, data,
                   boardMap, sprintMap, ticketMap, error>>

(***************************************************************************)
(* The call as a function of its arguments and of the number of ids the    *)
(* generator has issued before it: what it returns or throws, and the      *)
(* number of ids issued after it.                                          *)
(***************************************************************************)
Failed(msg, k) ==
    [thrown |-> TRUE, error |-> msg, result |-> EmptyResult, issued |-> k]

Returning(res, k) ==
    [thrown |-> FALSE, error |-> Null,
     result |-> [res EXCEPT !.stats = StatsOf(res)], issued |-> k]

\* pass 2 and the return, after pass 1 ended in tl
LinkStage(bs, tl) ==
    IF tl.thrown THEN Failed("TypeError", tl.issued)
    ELSE Returning([boards |-> bs.boards,
                    sprints |-> bs.sprints,
                    tickets |-> [i \in 1..Len(tl.tickets) |->
                                    LinkParent(tl.tickets[i], tl.ticketMap)],
                    stats |-> EmptyResult.stats],
                   tl.issued)

\* pass 1, after the board stage ended in bs
TicketStage(bs, fallback) ==
    IF bs.tickets.kind = "array"
    THEN TicketLoop([tickets |-> <<>>, ticketMap |-> EmptyMap,
                     issued |-> bs.issued, thrown |-> FALSE],
                    bs.tickets.items, 1, fallback, bs.boardMap, bs.sprintMap, bs.boards)
    ELSE [tickets |-> <<>>, ticketMap |-> EmptyMap, issued |-> bs.issued, thrown |-> FALSE]

AfterBoards(bs, fallback) ==
    IF bs.thrown THEN Failed("TypeError", bs.issued)
    ELSE LinkStage(bs, TicketStage(bs, fallback))

ParseJsonImport(text, fallback, n) ==
    IF ~text.wellFormed THEN Failed("Invalid JSON format", n)
    ELSE AfterBoards(BoardStage(text.value, n), fallback)

Next ==
    \/ JsonParse
    \/ ProcessBoards
    \/ FirstPass
    \/ SecondPass
    \/ Return

Spec == Init /\ [][Next]_vars

(***************************************************************************)
(* The import dialog and the App state it acts on.  The handlers run to    *)
(* completion; each calls parseJsonImport, which draws its ids from the    *)
(* same generator whether or not its result is kept.  The generator and    *)
(* the imports are capped: no handler starts a call once MaxIssued ids     *)
(* have been issued, and Import is not confirmed after MaxImports imports. *)
(***************************************************************************)
MaxIssued == 9
MaxImports == 2

DialogTexts ==
    {Blank, Malformed,
     TextOf(NullData),
     TextOf(DataObj(Absent, Absent)),
     TextOf(DataObj(Absent, Arr(<<BareTicket>>))),
     TextOf(DataObj(Arr(<<BoardObj("b1", Arr(<<SprintObj("s1")>>),
                                   Arr(<<TicketObj("t1", Undefined, "s1", Undefined)>>))>>),
                    Absent))}

DialogInit ==
    /\ rawText = Blank
    /\ currentBoardId = Undefined
    /\ pc = "idle"
    /\ data = NullData
    /\ result = EmptyResult
    /\ boardMap = EmptyMap
    /\ sprintMap = EmptyMap
    /\ ticketMap = EmptyMap
    /\ error = Null
    /\ store = InitialStore
    /\ issued = InitialIssued
    /\ isImportModalOpen = FALSE
    /\ activeBoardId \in {"", StoreBoardId}
    /\ modal = InitialModal
    /\ onImportCalls = 0
    /\ calls = NoCalls

\* onOpenImport={() => setIsImportModalOpen(true)}
OpenImport ==
    /\ ~isImportModalOpen
    /\ isImportModalOpen' = TRUE
    /\ UNCHANGED <<callVars, store, issued, activeBoardId, modal, onImportCalls>>

\* onClose={() => setIsImportModalOpen(false)}, bound to the X and Cancel buttons
Close ==
    /\ isImportModalOpen
    /\ isImportModalOpen' = FALSE
    /\ UNCHANGED <<callVars, store, issued, activeBoardId, modal, onImportCalls>>

SetActiveTab(tab) ==
    /\ isImportModalOpen
    /\ modal' = [modal EXCEPT !.activeTab = tab]
    /\ UNCHANGED <<callVars, store, issued, isImportModalOpen, activeBoardId, onImportCalls>>

\* what handleJsonChange does with the outcome r of its call
PreviewShowingError(val, r) ==
    /\ modal' = [modal EXCEPT !.jsonInput = val,
                              !.error = IF r.thrown THEN "Invalid JSON: " \o r.error ELSE Null,
                              !.stats = IF r.thrown THEN {} ELSE {r.result.stats}]
    /\ issued' = r.issued

Preview(val, r) ==
    /\ modal' = [modal EXCEPT !.jsonInput = val, !.error = Null,
                              !.stats = IF r.thrown THEN {} ELSE {r.result.stats}]
    /\ issued' = r.issued

HandleJsonChange(val) ==
    /\ isImportModalOpen
    /\ modal.activeTab = "import"
    /\ IF val.blank
       THEN /\ modal' = [modal EXCEPT !.jsonInput = val, !.error = Null, !.stats = {}]
            /\ UNCHANGED issued
       ELSE /\ issued < MaxIssued
            /\ Preview(val, ParseJsonImport(val, activeBoardId, issued))
    /\ UNCHANGED <<callVars, store, isImportModalOpen, activeBoardId, onImportCalls>>

\* handleBulkImport up to its first await: the merged lists and the active board
HandleBulkImportReplacing(importData) ==
    /\ store' = [boards |-> importData.boards,
                 sprints |-> importData.sprints,
                 tickets |-> importData.tickets]
    /\ activeBoardId' = IF Len(importData.boards) > 0
                        THEN importData.boards[1].id
                        ELSE activeBoardId

HandleBulkImport(importData) ==
    /\ store' = [boards |-> store.boards \o importData.boards,
                 sprints |-> store.sprints \o importData.sprints,
                 tickets |-> store.tickets \o importData.tickets]
    /\ activeBoardId' = IF Len(importData.boards) > 0
                        THEN importData.boards[1].id
                        ELSE activeBoardId

\* what handleImport does with the outcome r of its call
ConfirmAlwaysClosing(r) ==
    /\ issued' = r.issued
    /\ isImportModalOpen' = FALSE
    /\ IF r.thrown
       THEN /\ modal' = [modal EXCEPT !.error = "Invalid JSON: " \o r.error,
                                     !.jsonInput = Blank, !.stats = {}]
            /\ UNCHANGED <<store, activeBoardId, onImportCalls>>
       ELSE /\ HandleBulkImport(r.result)
            /\ onImportCalls' = onImportCalls + 1
            /\ modal' = [modal EXCEPT !.jsonInput = Blank, !.stats = {}]

Confirm(r) ==
    /\ issued' = r.issued
    /\ IF r.thrown
       THEN /\ modal' = [modal EXCEPT !.error = "Invalid JSON: " \o r.error]
            /\ UNCHANGED <<store, isImportModalOpen, activeBoardId, onImportCalls>>
       ELSE /\ HandleBulkImport(r.result)
            /\ onImportCalls' = onImportCalls + 1
            /\ isImportModalOpen' = FALSE
            /\ modal' = [modal EXCEPT !.jsonInput = Blank, !.stats = {}]

\* the Import Data button is disabled={!jsonInput.trim() || !!error}
HandleImportKeepingText ==
    /\ isImportModalOpen
    /\ ~modal.jsonInput.blank
    /\ modal.error = Null
    /\ issued < MaxIssued
    /\ onImportCalls < MaxImports
    /\ LET r == ParseJsonImport(modal.jsonInput, activeBoardId, issued)
       IN  /\ issued' = r.issued
           /\ IF r.thrown
              THEN /\ modal' = [modal EXCEPT !.error = "Invalid JSON: " \o r.error]
                   /\ UNCHANGED <<store, isImportModalOpen, activeBoardId, onImportCalls>>
              ELSE /\ HandleBulkImport(r.result)
                   /\ onImportCalls' = onImportCalls + 1
                   /\ isImportModalOpen' = FALSE
                   /\ UNCHANGED modal
    /\ UNCHANGED callVars

HandleImport ==
    /\ isImportModalOpen
    /\ ~modal.jsonInput.blank
    /\ modal.error = Null
    /\ issued < MaxIssued
    /\ onImportCalls < MaxImports
    /\ Confirm(ParseJsonImport(modal.jsonInput, activeBoardId, issued))
    /\ UNCHANGED callVars

DialogNext ==
    \/ OpenImport
    \/ Close
    \/ \E tab \in {"import", "guide"} : SetActiveTab(tab)
    \/ \E val \in DialogTexts : HandleJsonChange(val)
    \/ HandleImport

DialogSpec == DialogInit /\ [][DialogNext]_vars

(***************************************************************************)
(* Two invocations whose stages interleave.  Each has its own arguments    *)
(* and its own locals (data, result and the three maps are created inside  *)
(* the function); the two share nothing but crypto.randomUUID.             *)
(***************************************************************************)
PairTexts ==
    {Malformed,
     TextOf(NullData),
     TextOf(DataObj(Arr(<<BoardObj("b1", Arr(<<SprintObj("s1")>>), Absent)>>),
                    Arr(<<TicketObj("t1", Undefined, Undefined, Undefined)>>))),
     TextOf(DataObj(Absent, Arr(<<TicketObj(Undefined, "t1", "s1", "b1")>>))),
     TextOf(DataObj(Arr(<<BoardObj("b1", Absent,
                                   Arr(<<TicketObj("t1", "t2", Undefined, Undefined),
                                         TicketObj("t2", Undefined, "s1", Undefined)>>))>>),
                    Absent))}

NewCall(text, fallback) ==
    [text |-> text, fallback |-> fallback, pc |-> "parse", data |-> NullData,
     result |-> EmptyResult, boardMap |-> EmptyMap, sprintMap |-> EmptyMap,
     ticketMap |-> EmptyMap, error |-> Null]

PairInit ==
    /\ calls \in [{1, 2} -> {NewCall(text, fallback) :
                                text \in PairTexts, fallback \in {Undefined, StoreBoardId}}]
    /\ issued = InitialIssued
    /\ store = InitialStore
    /\ rawText = Blank
    /\ currentBoardId = Undefined
    /\ pc = "idle"
    /\ data = NullData
    /\ result = EmptyResult
    /\ boardMap = EmptyMap
    /\ sprintMap = EmptyMap
    /\ ticketMap = EmptyMap
    /\ error = Null
    /\ isImportModalOpen = FALSE
    /\ activeBoardId = ""
    /\ modal = InitialModal
    /\ onImportCalls = 0

pairFrame == <<rawText, currentBoardId, store, pc, data, result, boardMap, sprintMap,
               ticketMap, error, isImportModalOpen, activeBoardId, modal, onImportCalls>>

\* invocation i ends with an error
PairThrow(i, msg, n) ==
    /\ calls' = [calls EXCEPT ![i] = [NewCall(calls[i].text, calls[i].fallback)
                                         EXCEPT !.pc = "thrown", !.error = msg]]
    /\ issued' = n

\* the maps invocation i looks tokens up in: its own
SharedMaps(i) ==
    LET Both(a, b) == [k \in DOMAIN a \cup DOMAIN b |-> IF k \in DOMAIN b THEN b[k] ELSE a[k]]
        other == IF i = 1 THEN 2 ELSE 1
    IN  [boardMap |-> Both(calls[other].boardMap, calls[i].boardMap),
         sprintMap |-> Both(calls[other].sprintMap, calls[i].sprintMap),
         ticketMap |-> Both(calls[other].ticketMap, calls[i].ticketMap)]

OwnMaps(i) ==
    [boardMap |-> calls[i].boardMap,
     sprintMap |-> calls[i].sprintMap,
     ticketMap |-> calls[i].ticketMap]

PairJsonParse(i) ==
    /\ calls[i].pc = "parse"
    /\ IF calls[i].text.wellFormed
       THEN /\ calls' = [calls EXCEPT ![i].data = calls[i].text.value, ![i].pc = "boards"]
            /\ UNCHANGED issued
       ELSE PairThrow(i, "Invalid JSON format", issued)
    /\ UNCHANGED pairFrame

PairAfterBoards(i, st) ==
    IF st.thrown
    THEN PairThrow(i, "TypeError", st.issued)
    ELSE /\ calls' = [calls EXCEPT ![i].result.boards = st.boards,
                                   ![i].result.sprints = st.sprints,
                                   ![i].boardMap = st.boardMap,
                                   ![i].sprintMap = st.sprintMap,
                                   ![i].data.tickets = st.tickets,
                                   ![i].pc = "tickets"]
         /\ issued' = st.issued

PairProcessBoards(i) ==
    /\ calls[i].pc = "boards"
    /\ PairAfterBoards(i, BoardStage(calls[i].data, issued))
    /\ UNCHANGED pairFrame

PairAfterTickets(i, st) ==
    IF st.thrown
    THEN PairThrow(i, "TypeError", st.issued)
    ELSE /\ calls' = [calls EXCEPT ![i].result.tickets = st.tickets,
                                   ![i].ticketMap = st.ticketMap,
                                   ![i].pc = "link"]
         /\ issued' = st.issued

PairFirstPass(i) ==
    /\ calls[i].pc = "tickets"
    /\ IF calls[i].data.tickets.kind # "array"
       THEN /\ calls' = [calls EXCEPT ![i].pc = "stats"]
            /\ UNCHANGED issued
       ELSE PairAfterTickets(i, TicketLoop([tickets |-> <<>>, ticketMap |-> EmptyMap,
                                            issued |-> issued, thrown |-> FALSE],
                                           calls[i].data.tickets.items, 1, calls[i].fallback,
                                           OwnMaps(i).boardMap, OwnMaps(i).sprintMap,
                                           calls[i].result.boards))
    /\ UNCHANGED pairFrame

PairSecondPass(i) ==
    /\ calls[i].pc = "link"
    /\ calls' = [calls EXCEPT
                   ![i].result.tickets =
                       [n \in 1..Len(calls[i].result.tickets) |->
                           LinkParent(calls[i].result.tickets[n], OwnMaps(i).ticketMap)],
                   ![i].pc = "stats"]
    /\ UNCHANGED issued
    /\ UNCHANGED pairFrame

PairReturn(i) ==
    /\ calls[i].pc = "stats"
    /\ calls' = [calls EXCEPT ![i].result.stats = StatsOf(calls[i].result),
                              ![i].pc = "returned"]
    /\ UNCHANGED issued
    /\ UNCHANGED pairFrame

PairNext ==
    \E i \in {1, 2} :
        \/ PairJsonParse(i)
        \/ PairProcessBoards(i)
        \/ PairFirstPass(i)
        \/ PairSecondPass(i)
        \/ PairReturn(i)

PairSpec == PairInit /\ [][PairNext]_vars

(***************************************************************************)
(* Vocabulary of the properties.                                           *)
(***************************************************************************)
Returned == pc = "returned"

Ids(seq) == {seq[i].id : i \in 1..Len(seq)}
StoreIds == Ids(store.boards) \cup Ids(store.sprints) \cup Ids(store.tickets)
AllTokens == BoardTokens \cup SprintTokens \cup TicketTokens

\* the document the text denotes, as written by its author
Doc == rawText.value
ItemsOf(field) == IF field.kind = "array" THEN field.items ELSE <<>>
DocBoards == ItemsOf(Doc.boards)
DocTopLevel == ItemsOf(Doc.tickets)

\* the working ticket list of the call: data.tickets after the board stage
Working == ItemsOf(data.tickets)

RECURSIVE CountBefore(_, _, _)
CountBefore(bs, which, k) ==
    IF k <= 1 THEN 0
    ELSE CountBefore(bs, which, k - 1) +
         Len(ItemsOf(IF which = "sprints" THEN bs[k - 1].sprints ELSE bs[k - 1].tickets))

\* where the j-th sprint nested under the k-th board entry lands in result.sprints
SprintIndex(k, j) == CountBefore(DocBoards, "sprints", k) + j
\* where the j-th ticket nested under the k-th board entry lands in result.tickets
NestedIndex(k, j) == Len(DocTopLevel) + CountBefore(DocBoards, "tickets", k) + j

(***************************************************************************)
(* C1.  In every result of the call, each ticket's parent_id is null or    *)
(* the id of a ticket of the same result; it is never a raw input token.   *)
(***************************************************************************)
C1_ParentClosed ==
    Returned =>
        \A i \in 1..Len(result.tickets) :
            LET p == result.tickets[i].parent_id
            IN  p = Null \/ (p \in Ids(result.tickets) /\ p \notin AllTokens)

\* a result in which one parent token was resolved and another was orphaned
C1_Witness ==
    /\ Returned
    /\ \E i \in 1..Len(result.tickets) : result.tickets[i].parent_id # Null
    /\ \E i \in 1..Len(result.tickets) :
          /\ Truthy(Working[i].parent_id)
          /\ result.tickets[i].parent_id = Null

(***************************************************************************)
(* C2.  In every result of the call, each ticket's sprint_id is null or    *)
(* the id of a sprint of the same result; a raw sprint_id that is absent   *)
(* or has no entry in the sprint map yields null, never the raw token.     *)
(***************************************************************************)
C2_SprintClosed ==
    Returned =>
        \A i \in 1..Len(result.tickets) :
            LET sid == result.tickets[i].sprint_id
                raw == Working[i].sprint_id
            IN  /\ sid = Null \/ (sid \in Ids(result.sprints) /\ sid \notin AllTokens)
                /\ (~Truthy(raw) \/ ~MapHas(sprintMap, raw)) => sid = Null

\* a result with a ticket whose sprint token has no entry in the sprint map
C2_Witness ==
    /\ Returned
    /\ \E i \in 1..Len(result.tickets) :
          /\ Truthy(Working[i].sprint_id)
          /\ ~MapHas(sprintMap, Working[i].sprint_id)
          /\ result.tickets[i].sprint_id = Null

(***************************************************************************)
(* C3 as stated.  Whenever the call produces at least one board, every     *)
(* ticket of the result has a board_id equal to the id of a board of the   *)
(* same result.                                                            *)
(***************************************************************************)
C3_Original ==
    (Returned /\ Len(result.boards) > 0) =>
        \A i \in 1..Len(result.tickets) :
            result.tickets[i].board_id \in Ids(result.boards)

(***************************************************************************)
(* C3 as amended.  Whenever the call produces at least one board, every    *)
(* ticket of the result has a board_id equal to the id of a board of the   *)
(* same result or, when a fallback board id was given, to that id.         *)
(***************************************************************************)
C3_BoardOrFallback ==
    (Returned /\ Len(result.boards) > 0) =>
        \A i \in 1..Len(result.tickets) :
            \/ result.tickets[i].board_id \in Ids(result.boards)
            \/ Truthy(currentBoardId) /\ result.tickets[i].board_id = currentBoardId

\* a result with a board in which a ticket went to the fallback board instead
C3_Witness ==
    /\ Returned
    /\ Len(result.boards) > 0
    /\ \E i \in 1..Len(result.tickets) :
          /\ Truthy(currentBoardId)
          /\ result.tickets[i].board_id = currentBoardId
          /\ result.tickets[i].board_id \notin Ids(result.boards)

(***************************************************************************)
(* C4.  Every output sprint's board_id is the generated id of the board    *)
(* entry the sprint was nested under, which is a board of the same result; *)
(* it is never the raw input board token.                                  *)
(***************************************************************************)
C4_SprintBoard ==
    Returned =>
        /\ Len(result.sprints) = CountBefore(DocBoards, "sprints", Len(DocBoards) + 1)
        /\ \A k \in 1..Len(DocBoards) :
              \A j \in 1..Len(ItemsOf(DocBoards[k].sprints)) :
                 LET sprint == result.sprints[SprintIndex(k, j)]
                 IN  /\ sprint.board_id = result.boards[k].id
                     /\ sprint.board_id \in Ids(result.boards)
                     /\ sprint.board_id \notin AllTokens

\* a result with a sprint nested under a second board entry that carries a token
C4_Witness ==
    /\ Returned
    /\ \E k \in 2..Len(DocBoards) :
          /\ Truthy(DocBoards[k].id)
          /\ Len(ItemsOf(DocBoards[k].sprints)) > 0

(***************************************************************************)
(* C5.  In the result of the call, the ids of all boards, sprints and      *)
(* tickets are freshly generated, pairwise distinct across the three       *)
(* sequences, and none is an id already in the store.                      *)
(***************************************************************************)
C5_FreshIds ==
    Returned =>
        LET all == [i \in 1..Len(result.boards) |-> result.boards[i].id]
                   \o [i \in 1..Len(result.sprints) |-> result.sprints[i].id]
                   \o [i \in 1..Len(result.tickets) |-> result.tickets[i].id]
        IN  /\ \A a, b \in 1..Len(all) : a # b => all[a] # all[b]
            /\ \A a \in 1..Len(all) :
                  /\ all[a] \notin StoreIds
                  /\ all[a] \notin AllTokens
                  /\ \E k \in (InitialIssued + 1)..issued : all[a] = Uuid(k)

\* a result with a board, a sprint and a ticket
C5_Witness ==
    /\ Returned
    /\ Len(result.boards) > 0
    /\ Len(result.sprints) > 0
    /\ Len(result.tickets) > 0

(***************************************************************************)
(* C6.  Pass 1 resolves each ticket's board_id by strict priority: (a) the *)
(* token of the containing board entry mapped through the board map, if    *)
(* mapped; else (b) the ticket's own board_id mapped through the board     *)
(* map, if mapped; else (c) the fallback board id when given; else (d) the *)
(* id of the first board of this import, if any; else (e) unset.  A        *)
(* document without boards and with fallback B puts every ticket on B.     *)
(***************************************************************************)
TagOf(i) ==
    IF \E k \in 1..Len(DocBoards) :
          \E j \in 1..Len(ItemsOf(DocBoards[k].tickets)) : NestedIndex(k, j) = i
    THEN LET k == CHOOSE k \in 1..Len(DocBoards) :
                     \E j \in 1..Len(ItemsOf(DocBoards[k].tickets)) : NestedIndex(k, j) = i
         IN  DocBoards[k].id
    ELSE Undefined

C6_BoardPriority ==
    Returned =>
        /\ \A i \in 1..Len(result.tickets) :
              LET t == Working[i]
                  out == result.tickets[i].board_id
              IN  IF Truthy(TagOf(i)) /\ MapHas(boardMap, TagOf(i))
                  THEN out = MapGet(boardMap, TagOf(i))
                  ELSE IF Truthy(t.board_id) /\ MapHas(boardMap, t.board_id)
                  THEN out = MapGet(boardMap, t.board_id)
                  ELSE IF Truthy(currentBoardId)
                  THEN out = currentBoardId
                  ELSE IF Len(result.boards) > 0
                  THEN out = result.boards[1].id
                  ELSE ~Truthy(out)
        /\ (Len(DocBoards) = 0 /\ Truthy(currentBoardId)) =>
              \A i \in 1..Len(result.tickets) : result.tickets[i].board_id = currentBoardId

\* a ticket whose containing board and whose own board_id are both mapped, differently
C6_Witness ==
    /\ Returned
    /\ \E i \in 1..Len(result.tickets) :
          /\ Truthy(TagOf(i)) /\ MapHas(boardMap, TagOf(i))
          /\ Truthy(Working[i].board_id) /\ MapHas(boardMap, Working[i].board_id)
          /\ MapGet(boardMap, TagOf(i)) # MapGet(boardMap, Working[i].board_id)

(***************************************************************************)
(* C7.  A ticket nested under a board entry that supplies an id token gets *)
(* the generated id of that same board entry as its board_id, whatever the *)
(* fallback, the ticket's own board_id and the other board entries are.    *)
(***************************************************************************)
C7_NestedOnOwnBoard ==
    Returned =>
        \A k \in 1..Len(DocBoards) :
            Truthy(DocBoards[k].id) =>
                \A j \in 1..Len(ItemsOf(DocBoards[k].tickets)) :
                    result.tickets[NestedIndex(k, j)].board_id = result.boards[k].id

(***************************************************************************)
(* C8 as stated.  For a ticket whose parent_id is a token carried by a     *)
(* ticket that appears later in the working ticket list, the output        *)
(* parent_id is the generated id of that later ticket.                     *)
(***************************************************************************)
C8_Original ==
    Returned =>
        \A i, j \in 1..Len(result.tickets) :
            (i < j /\ Truthy(Working[i].parent_id) /\ Working[j].id = Working[i].parent_id)
                => result.tickets[i].parent_id = result.tickets[j].id

(***************************************************************************)
(* C8 as amended.  For a ticket whose parent_id is a token carried by some *)
(* ticket of the working list, the output parent_id is the generated id of *)
(* the last ticket that carries that token, wherever that ticket stands    *)
(* relative to the child; so a forward reference resolves to the later     *)
(* ticket whenever no ticket after it carries the same token.              *)
(***************************************************************************)
C8_ForwardRef ==
    Returned =>
        \A i, j \in 1..Len(result.tickets) :
            ( /\ Truthy(Working[i].parent_id)
              /\ Working[j].id = Working[i].parent_id
              /\ \A k \in (j + 1)..Len(Working) : Working[k].id # Working[j].id )
                => result.tickets[i].parent_id = result.tickets[j].id

\* a child listed before its parent, linked to it
C8_Witness ==
    /\ Returned
    /\ \E i, j \in 1..Len(result.tickets) :
          /\ i < j
          /\ Truthy(Working[i].parent_id)
          /\ Working[j].id = Working[i].parent_id
          /\ result.tickets[i].parent_id = result.tickets[j].id

(***************************************************************************)
(* C9.  For a ticket whose parent_id token is carried by no ticket of the  *)
(* same import, the output parent_id is null, and the call still returns a *)
(* result: no error, no raw token left in place.                           *)
(***************************************************************************)
DocTickets ==
    {DocTopLevel[i] : i \in 1..Len(DocTopLevel)} \cup
    UNION {{ItemsOf(DocBoards[k].tickets)[j] : j \in 1..Len(ItemsOf(DocBoards[k].tickets))} :
              k \in 1..Len(DocBoards)}

HasOrphan ==
    /\ rawText.wellFormed
    /\ \E t \in DocTickets :
          /\ Truthy(t.parent_id)
          /\ \A u \in DocTickets : u.id # t.parent_id

C9_OrphanOnMiss ==
    HasOrphan =>
        /\ pc # "thrown"
        /\ Returned =>
              \A i \in 1..Len(result.tickets) :
                  ( /\ Truthy(Working[i].parent_id)
                    /\ \A j \in 1..Len(Working) : Working[j].id # Working[i].parent_id )
                      => result.tickets[i].parent_id = Null

(***************************************************************************)
(* C10.  The call fails only on text that cannot be deserialized: for      *)
(* every text that deserializes, whatever the types of its top-level       *)
(* value, of boards, of tickets and of their entries, the call returns a   *)
(* result and does not fail.                                               *)
(***************************************************************************)
C10_NeverFailsOnJson ==
    rawText.wellFormed => pc # "thrown"

(***************************************************************************)
(* C11.  When the text cannot be deserialized the call fails with a parse  *)
(* error and returns no result at all: it never gets past its first stage, *)
(* produces no entity, and the error it raises is the parse error.         *)
(***************************************************************************)
C11_MalformedFails ==
    ~rawText.wellFormed =>
        /\ pc \in {"parse", "thrown"}
        /\ result = EmptyResult
        /\ pc = "thrown" => error = "Invalid JSON format"

C11_Witness ==
    /\ ~rawText.wellFormed
    /\ pc = "thrown"
    /\ error = "Invalid JSON format"

(***************************************************************************)
(* C13.  In every returned result stats.boards, stats.sprints and          *)
(* stats.tickets are the lengths of the returned boards, sprints and       *)
(* tickets.                                                                *)
(***************************************************************************)
C13_StatsAreLengths ==
    Returned =>
        /\ result.stats.boards = Len(result.boards)
        /\ result.stats.sprints = Len(result.sprints)
        /\ result.stats.tickets = Len(result.tickets)

C13_Witness ==
    /\ Returned
    /\ result.stats.boards = Len(result.boards)
    /\ result.stats.sprints = Len(result.sprints)
    /\ result.stats.tickets = Len(result.tickets)
    /\ Len(result.boards) > 0
    /\ Len(result.sprints) > 0
    /\ Len(result.tickets) > Len(result.boards)

(***************************************************************************)
(* C14.  For every input ticket, each of title, description, status, type, *)
(* priority, labels and is_flagged that is missing takes its default       *)
(* ("Untitled Ticket", the empty string, "Todo", "Story", "Medium", the    *)
(* empty list, false) and a missing story_points stays unset; so the empty *)
(* ticket yields exactly the defaults table.                               *)
(***************************************************************************)
C14_Defaults ==
    Returned =>
        \A i \in 1..Len(result.tickets) :
            LET t == Working[i]
                out == result.tickets[i]
            IN  /\ t.title = Undef => out.title = Str("Untitled Ticket")
                /\ t.description = Undef => out.description = Str("")
                /\ t.status = Undef => out.status = Str("Todo")
                /\ t.type = Undef => out.type = Str("Story")
                /\ t.priority = Undef => out.priority = Str("Medium")
                /\ t.labels = Undef => out.labels = List(<<>>)
                /\ t.is_flagged = Undef => out.is_flagged = Bool(FALSE)
                /\ t.story_points = Undef => out.story_points = Undef

\* a ticket that gives a title and a description and nothing else
C14_Witness ==
    /\ Returned
    /\ \E i \in 1..Len(result.tickets) :
          /\ Working[i].title = Str("Fix login")
          /\ Working[i].description = Str("Steps")
          /\ result.tickets[i].title = Str("Fix login")
          /\ result.tickets[i].type = Str("Story")
          /\ result.tickets[i].priority = Str("Medium")
          /\ result.tickets[i].story_points = Undef

(***************************************************************************)
(* C15.  When an input ticket's story_points is text, the output           *)
(* story_points is the integer that text denotes, and is unset when the    *)
(* text does not denote an integer; it is never NaN and never a string.    *)
(* A text denotes an integer when it is an optional sign followed by one   *)
(* or more decimal digits, white space before it aside.                    *)
(***************************************************************************)
C15_TextPoints ==
    Returned =>
        \A i \in 1..Len(result.tickets) :
            LET text == Working[i].story_points
                out == result.tickets[i].story_points
                body == LET s1 == SkipSpace(text.list)
                        IN  IF s1 # <<>> /\ Head(s1) \in {"+", "-"} THEN Tail(s1) ELSE s1
                denotes == body # <<>> /\ \A k \in 1..Len(body) : IsDigit(body[k])
            IN  text.type = "string" =>
                   /\ out # NaN
                   /\ out.type # "string"
                   /\ IF denotes THEN out = ParseInt(text.list) ELSE out = Undef

(***************************************************************************)
(* C16.  Every output ticket's story_points is either unset or a           *)
(* non-negative integer, whatever value (number, text or any other type)   *)
(* the input ticket supplies for it.                                       *)
(***************************************************************************)
C16_PointsNonNegative ==
    Returned =>
        \A i \in 1..Len(result.tickets) :
            LET out == result.tickets[i].story_points
            IN  \/ out \in {Undef, NullV}
                \/ out.type = "number" /\ out.str = "" /\ out.num >= 0

(***************************************************************************)
(* C17.  For any well-formed document, every output ticket's type is one   *)
(* of Epic, Story, Task, Bug and its priority one of Low, Medium, High,    *)
(* Critical, every output sprint's status is one of active, future, closed *)
(* and every output board's type is scrum or kanban: a missing or invalid  *)
(* input value is never passed through.                                    *)
(***************************************************************************)
C17_EnumsClosed ==
    Returned =>
        /\ \A i \in 1..Len(result.tickets) :
              /\ result.tickets[i].type \in {Str("Epic"), Str("Story"), Str("Task"), Str("Bug")}
              /\ result.tickets[i].priority \in
                    {Str("Low"), Str("Medium"), Str("High"), Str("Critical")}
        /\ \A i \in 1..Len(result.sprints) :
              result.sprints[i].status \in {Str("active"), Str("future"), Str("closed")}
        /\ \A i \in 1..Len(result.boards) :
              result.boards[i].type \in {Str("scrum"), Str("kanban")}

(***************************************************************************)
(* C18.  Every output ticket has assignee_id null, whatever assignee_id    *)
(* the input ticket supplies.                                              *)
(***************************************************************************)
C18_NoAssignee ==
    Returned =>
        \A i \in 1..Len(result.tickets) : result.tickets[i].assignee_id = NullV

\* a ticket that names an assignee
C18_Witness ==
    /\ Returned
    /\ \E i \in 1..Len(result.tickets) :
          /\ Working[i].assignee_id = Str("u1")
          /\ result.tickets[i].assignee_id = NullV

(***************************************************************************)
(* The tickets of the document in the two orders a reader may expect, each *)
(* with the title it gets.                                                 *)
(***************************************************************************)
RECURSIVE NestedFrom(_, _)
NestedFrom(bs, k) ==
    IF k > Len(bs) THEN <<>> ELSE ItemsOf(bs[k].tickets) \o NestedFrom(bs, k + 1)

SameTickets(expected) ==
    /\ Len(Working) = Len(expected)
    /\ Len(result.tickets) = Len(expected)
    /\ \A i \in 1..Len(expected) :
          /\ [Working[i] EXCEPT !._temp_board_id = Undefined] = expected[i]
          /\ result.tickets[i].title = OrElse(expected[i].title, Str("Untitled Ticket"))

(***************************************************************************)
(* C19 as stated.  The working ticket list, and therefore the output       *)
(* tickets sequence, is the tickets nested under boards (in board order,   *)
(* then nested order) followed by the top-level tickets in input order.    *)
(***************************************************************************)
C19_Original ==
    Returned => SameTickets(NestedFrom(DocBoards, 1) \o DocTopLevel)

(***************************************************************************)
(* C19 as amended.  The working ticket list, and therefore the output      *)
(* tickets sequence, is the top-level tickets in input order followed by   *)
(* the tickets nested under boards (in board order, then nested order).    *)
(***************************************************************************)
C19_TopLevelFirst ==
    Returned => SameTickets(DocTopLevel \o NestedFrom(DocBoards, 1))

\* two top-level tickets and two tickets nested under each of two boards
C19_Witness ==
    /\ Returned
    /\ Len(DocTopLevel) > 1
    /\ \A k \in 1..Len(DocBoards) : Len(ItemsOf(DocBoards[k].tickets)) > 1
    /\ Len(DocBoards) > 1
    /\ result.tickets[1].title = Str("top 1")
    /\ result.tickets[Len(result.tickets)].title = Str("nested 2.2")

C12_RejectedImport ==
    [][(HandleImport /\ ParseJsonImport(modal.jsonInput, activeBoardId, issued).thrown) =>
          /\ onImportCalls' = onImportCalls
          /\ store' = store
          /\ isImportModalOpen'
          /\ modal'.jsonInput = modal.jsonInput
          /\ modal'.error = "Invalid JSON: " \o
                ParseJsonImport(modal.jsonInput, activeBoardId, issued).error]_vars

\* the dialog after Import on a text that deserializes and is rejected all the same
C12_Witness ==
    /\ isImportModalOpen
    /\ modal.jsonInput = TextOf(NullData)
    /\ modal.error = "Invalid JSON: TypeError"
    /\ onImportCalls > 0
    /\ Len(store.tickets) > Len(InitialStore.tickets)

(***************************************************************************)
(* C27.  For every output ticket with a non-null sprint_id, the sprint it  *)
(* references has the ticket's board_id as its board_id: a ticket is never *)
(* placed in a sprint of a different board.                                *)
(***************************************************************************)
C27_SprintOnTicketBoard ==
    Returned =>
        \A i \in 1..Len(result.tickets) :
            \A j \in 1..Len(result.sprints) :
                result.sprints[j].id = result.tickets[i].sprint_id =>
                    result.sprints[j].board_id = result.tickets[i].board_id

(***************************************************************************)
(* Following parent_id from the ticket with the given id reaches null in   *)
(* at most fuel steps.                                                     *)
(***************************************************************************)
RECURSIVE ReachesNull(_, _, _)
ReachesNull(tickets, id, fuel) ==
    IF id = Null THEN TRUE
    ELSE IF fuel = 0 THEN FALSE
    ELSE LET owners == {i \in 1..Len(tickets) : tickets[i].id = id}
         IN  \/ owners = {}
             \/ ReachesNull(tickets, tickets[CHOOSE i \in owners : TRUE].parent_id, fuel - 1)

(***************************************************************************)
(* C28.  The parent relation of every result is acyclic: no output ticket  *)
(* has parent_id equal to its own id, and following parent_id links from   *)
(* any ticket reaches null after finitely many steps.                      *)
(***************************************************************************)
C28_ParentsAcyclic ==
    Returned =>
        \A i \in 1..Len(result.tickets) :
            /\ result.tickets[i].parent_id # result.tickets[i].id
            /\ ReachesNull(result.tickets, result.tickets[i].id, Len(result.tickets))

(***************************************************************************)
(* C29.  A ticket nested under a board entry that supplies no id token is  *)
(* assigned the generated id of that containing board, also when a         *)
(* fallback board id is given or other boards precede it in the document.  *)
(***************************************************************************)
C29_NestedUnderIdless ==
    Returned =>
        \A k \in 1..Len(DocBoards) :
            ~Truthy(DocBoards[k].id) =>
                \A j \in 1..Len(ItemsOf(DocBoards[k].tickets)) :
                    result.tickets[NestedIndex(k, j)].board_id = result.boards[k].id

(***************************************************************************)
(* C23.  Nothing is dropped, merged or duplicated: the result has exactly  *)
(* one board per entry of the input boards array, one sprint per entry of  *)
(* every board's nested sprints array and one ticket per nested or         *)
(* top-level tickets entry, so the counts in stats depend only on the      *)
(* document, whatever the fallback board id is.                            *)
(***************************************************************************)
C23_OnePerEntry ==
    Returned =>
        LET sprints == CountBefore(DocBoards, "sprints", Len(DocBoards) + 1)
            tickets == Len(DocTopLevel) + CountBefore(DocBoards, "tickets", Len(DocBoards) + 1)
        IN  /\ Len(result.boards) = Len(DocBoards)
            /\ Len(result.sprints) = sprints
            /\ Len(result.tickets) = tickets
            /\ result.stats =
                  [boards |-> Len(DocBoards), sprints |-> sprints, tickets |-> tickets]

\* two board entries with the same token, and a ticket
C23_Witness ==
    /\ Returned
    /\ Len(DocBoards) > 1
    /\ Truthy(DocBoards[1].id)
    /\ DocBoards[1].id = DocBoards[2].id
    /\ Len(result.boards) = Len(DocBoards)
    /\ result.stats.tickets > 0

(***************************************************************************)
(* C24.  The stages are ordered: every board and sprint token mapping of   *)
(* the whole document is recorded before any ticket is resolved, so a      *)
(* ticket's reference to a board (the tag of its containing board entry    *)
(* or, without one, its own board_id) and to a sprint resolves to a board  *)
(* or sprint that carries the token, wherever that board or sprint appears *)
(* in the document relative to the ticket.                                 *)
(***************************************************************************)
C24_StagesOrdered ==
    /\ pc \in {"tickets", "link", "stats", "returned"} =>
          /\ pc = "tickets" => result.tickets = <<>>
          /\ \A k \in 1..Len(DocBoards) :
                /\ Truthy(DocBoards[k].id) => MapHas(boardMap, DocBoards[k].id)
                /\ \A j \in 1..Len(ItemsOf(DocBoards[k].sprints)) :
                      Truthy(ItemsOf(DocBoards[k].sprints)[j].id) =>
                          MapHas(sprintMap, ItemsOf(DocBoards[k].sprints)[j].id)
    /\ Returned =>
          \A i \in 1..Len(result.tickets) :
              LET ref == IF Truthy(TagOf(i)) THEN TagOf(i) ELSE Working[i].board_id
                  carriers == {k \in 1..Len(DocBoards) : DocBoards[k].id = ref}
                  sprintCarriers ==
                      UNION {{SprintIndex(k, j) :
                                 j \in {j \in 1..Len(ItemsOf(DocBoards[k].sprints)) :
                                           ItemsOf(DocBoards[k].sprints)[j].id =
                                               Working[i].sprint_id}} :
                               k \in 1..Len(DocBoards)}
              IN  /\ (Truthy(ref) /\ carriers # {}) =>
                        \E k \in carriers : result.tickets[i].board_id = result.boards[k].id
                  /\ (Truthy(Working[i].sprint_id) /\ sprintCarriers # {}) =>
                        \E n \in sprintCarriers :
                            result.tickets[i].sprint_id = result.sprints[n].id

\* a ticket written before the board entry its board_id names
C24_Witness ==
    /\ Returned
    /\ Len(DocBoards) > 1
    /\ \E i \in 1..Len(result.tickets) :
          /\ ~Truthy(TagOf(i))
          /\ Working[i].board_id = DocBoards[2].id
          /\ Working[i].board_id # DocBoards[1].id
          /\ Truthy(Working[i].board_id)
          /\ result.tickets[i].board_id = result.boards[2].id

(***************************************************************************)
(* C21.  Import is insert-only: in every step of the dialog each list of   *)
(* the store keeps what it had, unchanged and in the same order; a         *)
(* successful import appends exactly the boards, sprints and tickets of    *)
(* its batch; and no other step, the calls made while the text is edited   *)
(* included, writes to the store.                                          *)
(***************************************************************************)
C21_InsertOnly ==
    [][LET r == ParseJsonImport(modal.jsonInput, activeBoardId, issued)
           Kept(old, new) == Len(new) >= Len(old) /\ SubSeq(new, 1, Len(old)) = old
       IN  /\ Kept(store.boards, store'.boards)
           /\ Kept(store.sprints, store'.sprints)
           /\ Kept(store.tickets, store'.tickets)
           /\ Kept(InitialStore.boards, store'.boards)
           /\ Kept(InitialStore.sprints, store'.sprints)
           /\ Kept(InitialStore.tickets, store'.tickets)
           /\ IF HandleImport /\ ~r.thrown
              THEN /\ store'.boards = store.boards \o r.result.boards
                   /\ store'.sprints = store.sprints \o r.result.sprints
                   /\ store'.tickets = store.tickets \o r.result.tickets
              ELSE store' = store]_vars

\* the store after two imports, the second of which brought a board
C21_Witness ==
    /\ onImportCalls > 1
    /\ Len(store.boards) > Len(InitialStore.boards)
    /\ store.boards[Len(store.boards)].id = activeBoardId
    /\ Len(store.tickets) > Len(InitialStore.tickets) + 1
    /\ SubSeq(store.tickets, 1, Len(InitialStore.tickets)) = InitialStore.tickets

(***************************************************************************)
(* C25.  In the import dialog, after every edit of the text the error is   *)
(* cleared, and stats is non-null exactly when the current text is         *)
(* non-blank and reconciles successfully against the active board id, in   *)
(* which case it equals that reconciliation's stats; a failed              *)
(* reconciliation during editing shows no error.                           *)
(***************************************************************************)
C25_LivePreview ==
    [][(\E val \in DialogTexts : HandleJsonChange(val)) =>
          LET text == modal'.jsonInput
              r == ParseJsonImport(text, activeBoardId, issued)
          IN  /\ modal'.error = Null
              /\ (modal'.stats # {}) <=> (~text.blank /\ ~r.thrown)
              /\ (~text.blank /\ ~r.thrown) => modal'.stats = {r.result.stats}]_vars

\* the preview of a document with a board, a sprint and a ticket
C25_Witness ==
    /\ isImportModalOpen
    /\ ~modal.jsonInput.blank
    /\ modal.error = Null
    /\ \E st \in modal.stats : st.boards > 0 /\ st.sprints > 0 /\ st.tickets > 0

(***************************************************************************)
(* C26.  The store is changed by the import dialog only on a successful    *)
(* confirmation: editing the text never invokes onImport, and each         *)
(* successful confirmation invokes onImport exactly once with the boards,  *)
(* sprints and tickets of a reconciliation of the current text, after      *)
(* which the dialog is closed and its text and stats are cleared.          *)
(***************************************************************************)
C26_OnlyOnConfirm ==
    [][LET r == ParseJsonImport(modal.jsonInput, activeBoardId, issued)
           confirmed == HandleImport /\ ~r.thrown
       IN  /\ (store' # store \/ onImportCalls' # onImportCalls) => confirmed
           /\ (\E val \in DialogTexts : HandleJsonChange(val)) =>
                  (onImportCalls' = onImportCalls /\ store' = store)
           /\ confirmed =>
                  /\ onImportCalls' = onImportCalls + 1
                  /\ store' = [boards |-> store.boards \o r.result.boards,
                               sprints |-> store.sprints \o r.result.sprints,
                               tickets |-> store.tickets \o r.result.tickets]
                  /\ ~isImportModalOpen'
                  /\ modal'.jsonInput = Blank
                  /\ modal'.stats = {}]_vars

\* the dialog right after its first successful confirmation
C26_Witness ==
    /\ onImportCalls = 1
    /\ ~isImportModalOpen
    /\ modal.jsonInput = Blank
    /\ modal.stats = {}
    /\ Len(store.sprints) > Len(InitialStore.sprints)

(***************************************************************************)
(* C22.  Two invocations whose steps interleave arbitrarily, each with its *)
(* own board, sprint and ticket token maps and sharing only the id         *)
(* generator, each return the same result (up to id renaming) as when run  *)
(* alone, and fail exactly when they fail alone: a token recorded by one   *)
(* invocation never resolves a reference of the other.  Results are        *)
(* compared after renaming each generated id to its rank among the ids     *)
(* generated by the same invocation.                                       *)
(***************************************************************************)
C22_Independent ==
    \A i \in DOMAIN calls :
        LET c == calls[i]
            alone == ParseJsonImport(c.text, c.fallback, InitialIssued)
            uu == [k \in 1..issued |-> Uuid(k)]
            Canon(res) ==
                LET own == Ids(res.boards) \cup Ids(res.sprints) \cup Ids(res.tickets)
                    Counter(id) == CHOOSE k \in 1..issued : uu[k] = id
                    Name(id) ==
                        IF id \in own
                        THEN "new-" \o ToString(Cardinality({o \in own : Counter(o) <= Counter(id)}))
                        ELSE id
                IN  [boards |-> [n \in 1..Len(res.boards) |->
                                    [res.boards[n] EXCEPT !.id = Name(@)]],
                     sprints |-> [n \in 1..Len(res.sprints) |->
                                    [res.sprints[n] EXCEPT !.id = Name(@), !.board_id = Name(@)]],
                     tickets |-> [n \in 1..Len(res.tickets) |->
                                    [res.tickets[n] EXCEPT !.id = Name(@), !.board_id = Name(@),
                                                           !.sprint_id = Name(@),
                                                           !.parent_id = Name(@)]],
                     stats |-> res.stats]
        IN  /\ c.pc = "returned" => (~alone.thrown /\ Canon(c.result) = Canon(alone.result))
            /\ c.pc = "thrown" => (alone.thrown /\ alone.error = c.error)

\* invocation 2 resolved its ticket between the board stage and the ticket stage of
\* invocation 1, whose maps held the tokens that ticket refers to
C22_Witness ==
    /\ DOMAIN calls = {1, 2}
    /\ calls[1].pc = "returned"
    /\ calls[2].pc = "returned"
    /\ MapHas(calls[1].boardMap, "b1")
    /\ MapHas(calls[1].sprintMap, "s1")
    /\ MapHas(calls[1].ticketMap, "t1")
    /\ Len(calls[2].result.boards) = 0
    /\ Len(calls[2].result.tickets) = 1
    /\ calls[2].result.tickets[1].parent_id = Null
    /\ calls[2].result.tickets[1].sprint_id = Null
    /\ \E a, b \in 1..issued :
          /\ a < b
          /\ calls[1].result.boards[1].id = Uuid(a)
          /\ calls[2].result.tickets[1].id = Uuid(b)
          /\ \E n \in 1..Len(calls[1].result.tickets) :
                \E k \in (b + 1)..issued : calls[1].result.tickets[n].id = Uuid(k)

====
